---- MODULE Spec2Model ----
(***************************************************************************)
(* libcrc++ : the bit reversal helper, the bit shifter, the direct CRC     *)
(* calculator CrcCalc and the table driven calculator CrcFastCalc of       *)
(* include/libcrc++.h, with the callers that drive them.                   *)
(*                                                                         *)
(* A value of an unsigned type of W bits is the set of the positions of    *)
(* its 1 bits, a subset of 0..W-1: XOR is the symmetric difference, AND    *)
(* the intersection, a shift moves the positions and the conversion to a   *)
(* type drops (or, from a negative int, adds) positions.  The widths stay  *)
(* those of the code: 8, 16, 32 and 64 bits for T, 32 bits for int.        *)
(***************************************************************************)
EXTENDS Integers, Sequences, FiniteSets, TLC

VARIABLES
    build,      \* what this build yields for each shift whose count exceeds the operand
    poly,       \* the constructor's argument (T poly)
    calc,       \* the CrcCalc<T, dir> instance
    fast,       \* the CrcFastCalc<T, dir> instance
    call,       \* per caller thread: the compute call it is in
    rev         \* the caller of reverse<T>: its argument, the value so far, the calls made

vars == <<build, poly, calc, fast, call, rev>>

(***************************************************************************)
(* Bounds of the model.                                                    *)
(***************************************************************************)
NThreads == 2
MaxLen == 2

(***************************************************************************)
(* Constants of the program.                                               *)
(***************************************************************************)
IntBits == 32
ByteBits == 8
TableSize == 256

Threads == 1..NThreads
Widths == {8, 16, 32, 64}
ShiftDir == {"shiftLeft", "shiftRight"}

(***************************************************************************)
(* Words.                                                                  *)
(***************************************************************************)
\* The bits of a number 0 <= n < 2^31.
BitsOf(n) == {i \in 0..30 : (n \div (2^i)) % 2 = 1}

\* A literal of up to 64 bits from its four 16-bit groups, most significant first.
Hex(h3, h2, h1, h0) ==
    BitsOf(h0) \cup {i + 16 : i \in BitsOf(h1)}
               \cup {i + 32 : i \in BitsOf(h2)} \cup {i + 48 : i \in BitsOf(h3)}

RECURSIVE ValueOf(_)
\* The number a word of at most 30 bits stands for.
ValueOf(s) == IF s = {} THEN 0
              ELSE LET i == CHOOSE j \in s : TRUE IN (2^i) + ValueOf(s \ {i})

Xor(a, b) == {i \in a \cup b : ~(i \in a /\ i \in b)}
Trunc(x, w) == {i \in x : i < w}
Shl(x, n) == {i + n : i \in x}
Shr(x, n) == {i - n : i \in {j \in x : j >= n}}
AllOnes(w) == 0..(w - 1)

(***************************************************************************)
(* C++ arithmetic on int and unsigned operands.                            *)
(***************************************************************************)
\* A shift by at least the width of the (promoted) left operand is undefined.  The
\* builds of this code yield one of two results for it: the count taken modulo the
\* width (the shift instruction of x86) or 0 (the compiler folding the constant).
Outcomes == {"wrap", "zero"}

\* The places of the code where T = uint64_t makes the shift count reach 32.
Sites == {"reverse", "mask", "calcPack", "fastPack"}

\* x << n for a 32-bit x (an int or an unsigned); ub is the build's outcome there.
ShlInt(x, n, ub) ==
    IF n < IntBits THEN Trunc(Shl(x, n), IntBits)
    ELSE IF ub = "wrap" THEN Trunc(Shl(x, n % IntBits), IntBits)
    ELSE {}

\* The conversion of an int to T: modulo 2^w, so a negative int is sign-extended.
FromInt(w, x) ==
    IF w > IntBits
    THEN IF (IntBits - 1) \in x THEN {i \in 0..(w - 1) : i \in x \/ i >= IntBits} ELSE x
    ELSE Trunc(x, w)

\* The conversion of an unsigned to T.
FromUnsigned(w, x) == Trunc(x, w)

(***************************************************************************)
(* reverse<T>: the order of the bits of a word reversed.                   *)
(***************************************************************************)
\* reverse with the target position off by one: 1 << (W - bit) for 1 << (W - bit - 1).
reverseOffByOne(w, word, ub) ==
    LET taken == {bit \in 0..(w - 1) : word \cap FromInt(w, ShlInt({0}, bit, ub)) # {}}
    IN  {i \in 0..(w - 1) :
            \E bit \in taken : i \in FromInt(w, ShlInt({0}, w - bit, ub))}

\* The loop ORs into result, for every bit whose test succeeds, the constant 1 << (W - bit - 1).
reverse(w, word, ub) ==
    LET taken == {bit \in 0..(w - 1) : word \cap FromInt(w, ShlInt({0}, bit, ub)) # {}}
    IN  {i \in 0..(w - 1) :
            \E bit \in taken : i \in FromInt(w, ShlInt({0}, w - bit - 1, ub))}

(***************************************************************************)
(* Shifter<T, dir>::shift                                                  *)
(***************************************************************************)
shift(dir, w, data, bits) ==
    IF dir = "shiftLeft" THEN Trunc(Shl(data, bits), w) ELSE Shr(data, bits)

(***************************************************************************)
(* The constructors' member initialisers.                                  *)
(***************************************************************************)
polynomial_(w, dir, p, b) ==
    IF dir = "shiftLeft" THEN p ELSE reverse(w, p, b["reverse"])

mask_(w, dir, b) ==
    IF dir = "shiftLeft" THEN FromInt(w, ShlInt({0}, w - 1, b["mask"]))
    ELSE FromInt(w, {0})

pack_(w, dir) ==
    IF dir = "shiftLeft" THEN ((w \div ByteBits) - 1) * ByteBits ELSE 0

\* Round with the XOR made before the shift instead of after it.
RoundXorFirst(e, result) ==
    IF result \cap e.mask_ # {}
    THEN shift(e.dir, e.T, Xor(result, e.polynomial_), 1)
    ELSE shift(e.dir, e.T, result, 1)

\* One round of the division: the test of the mask bit, the shift, the XOR.
Round(e, result) ==
    IF result \cap e.mask_ # {}
    THEN Xor(shift(e.dir, e.T, result, 1), e.polynomial_)
    ELSE shift(e.dir, e.T, result, 1)

RECURSIVE Rounds(_, _, _)
\* for (int bit = 8; bit > 0; --bit) ...
Rounds(e, result, bit) ==
    IF bit > 0 THEN Rounds(e, Round(e, result), bit - 1) ELSE result

\* CrcCalc<T, dir>::CrcCalc(poly)
CrcCalc(w, dir, p, b) ==
    [T |-> w, dir |-> dir,
     polynomial_ |-> polynomial_(w, dir, p, b),
     mask_ |-> mask_(w, dir, b),
     pack_ |-> pack_(w, dir)]

\* The entry the constructor of CrcFastCalc stores at idx.
TableEntry(e, idx, b) ==
    Rounds(e, FromUnsigned(e.T, ShlInt(BitsOf(idx), e.pack_, b["fastPack"])), ByteBits)

\* CrcFastCalc<T, dir>::CrcFastCalc(poly)
CrcFastCalc(w, dir, p, b) ==
    LET e == CrcCalc(w, dir, p, b)
    IN  [T |-> w, dir |-> dir,
         polynomial_ |-> e.polynomial_,
         mask_ |-> e.mask_,
         pack_ |-> e.pack_,
         lookup_table_ |-> [idx \in 0..(TableSize - 1) |-> TableEntry(e, idx, b)]]

(***************************************************************************)
(* compute: the body of the while loop for one byte, and the whole call.   *)
(***************************************************************************)
\* compute starting from a zero register whatever the seed.
InitResultZero(seed) == {}

\* result = seed
InitResult(seed) == seed

\* CrcCalc::compute, one byte: result ^= (*data++) << pack_; then the 8 rounds.
CalcByte(e, result, byte, b) ==
    Rounds(e, Xor(result, FromInt(e.T, ShlInt(BitsOf(byte), e.pack_, b["calcPack"]))),
           ByteBits)

\* CrcFastCalc::compute, one byte.
FastByte(e, result, byte) ==
    Xor(shift(e.dir, e.T, result, ByteBits),
        e.lookup_table_[ValueOf(Trunc(Xor(Shr(result, e.pack_), BitsOf(byte)), ByteBits))])

RECURSIVE CalcLoop(_, _, _, _)
\* while (length--) ...  (r is bound to the value of the byte's step before the loop
\* goes on: the set only fixes the order of evaluation)
CalcLoop(e, data, result, b) ==
    IF data = <<>> THEN result
    ELSE CHOOSE v \in {CalcLoop(e, Tail(data), r, b) :
                          r \in {CalcByte(e, result, Head(data), b)}} : TRUE

RECURSIVE FastLoop(_, _, _)
FastLoop(e, data, result) ==
    IF data = <<>> THEN result
    ELSE CHOOSE v \in {FastLoop(e, Tail(data), r) :
                          r \in {FastByte(e, result, Head(data))}} : TRUE

\* CrcCalc::compute(data, length, seed) run alone, length = Len(data).
CalcCompute(e, data, seed, b) == CalcLoop(e, data, InitResult(seed), b)

\* CrcFastCalc::compute(data, length, seed) run alone.
FastCompute(e, data, seed) == FastLoop(e, data, InitResult(seed))

(***************************************************************************)
(* The inputs the callers draw from.                                       *)
(***************************************************************************)
\* Polynomials of the README's table, and CRC64/ECMA and CRC64/ISO for uint64_t.
Polys(w) ==
    CASE w = 8  -> {Hex(0, 0, 0, \H07), Hex(0, 0, 0, \HD5)}
      [] w = 16 -> {Hex(0, 0, 0, \H1021), Hex(0, 0, 0, \H8005)}
      [] w = 32 -> {Hex(0, 0, \H04C1, \H1DB7), Hex(0, 0, \HF4AC, \HFB13)}
      [] OTHER  -> {Hex(\H42F0, \HE1EB, \HA9EA, \H3693), Hex(0, 0, 0, \H1B)}

\* The seeds of the README's table: 0 and the maximum value of the register.
Seeds(w) == {{}, AllOnes(w)}

\* The bytes of the callers' buffers, and the buffers of at most MaxLen bytes.
ByteSet == {\H31, \H80}
Data == UNION {[1..n -> ByteSet] : n \in 0..MaxLen}

\* The ASCII bytes "123456789".
Msg == <<\H31, \H32, \H33, \H34, \H35, \H36, \H37, \H38, \H39>>

\* The sites whose shift count reaches the width of int in CrcCalc<T, dir> and
\* CrcFastCalc<T, dir>: none unless T is wider than int; reverse is called for shiftRight
\* only, and mask_ and pack_ shift for shiftLeft only.
Reached(w, dir) ==
    IF w <= IntBits THEN {}
    ELSE IF dir = "shiftRight" THEN {"reverse"}
    ELSE {"mask", "calcPack", "fastPack"}

\* The builds that differ for this instantiation (a site never reached is left "wrap").
Builds(w, dir) ==
    {b \in [Sites -> Outcomes] : \A s \in Sites \ Reached(w, dir) : b[s] = "wrap"}

Engines == {"calc", "fast"}

Idle ==
    [pc |-> "idle", eng |-> "none", data |-> <<>>, ptr |-> 0, length |-> 0,
     seed |-> {}, result |-> {}, crc0 |-> {}, fed |-> <<>>]

(***************************************************************************)
(* The state after construction: both calculators built from the same      *)
(* polynomial, no call made yet.                                           *)
(***************************************************************************)
Init ==
    \E w \in Widths, dir \in ShiftDir :
        /\ poly \in Polys(w)
        /\ build \in Builds(w, dir)
        /\ calc = CrcCalc(w, dir, poly, build)
        /\ fast = CrcFastCalc(w, dir, poly, build)
        /\ call = [t \in Threads |-> Idle]
        /\ rev = [T |-> w, arg |-> poly, value |-> poly, calls |-> 0]

(***************************************************************************)
(* compute(data, length, seed), a byte at a time.                          *)
(***************************************************************************)
\* The call is entered: T result = seed.
Compute(t, eng, d, s) ==
    /\ call[t].pc \in {"idle", "done"}
    /\ call' = [call EXCEPT ![t] =
                  [pc |-> "loop", eng |-> eng, data |-> d, ptr |-> 0, length |-> Len(d),
                   seed |-> s, result |-> InitResult(s), crc0 |-> s, fed |-> <<>>]]
    /\ UNCHANGED <<build, poly, calc, fast, rev>>

\* The caller's loop over the chunks of a file: crc = compute(buffer, lesen, crc).
NextChunk(t, d) ==
    /\ call[t].pc = "done"
    /\ Len(call[t].fed) + Len(call[t].data) + Len(d) <= MaxLen
    /\ call' = [call EXCEPT ![t] =
                  [pc |-> "loop", eng |-> call[t].eng, data |-> d, ptr |-> 0,
                   length |-> Len(d), seed |-> call[t].result,
                   result |-> InitResult(call[t].result), crc0 |-> call[t].crc0,
                   fed |-> call[t].fed \o call[t].data]]
    /\ UNCHANGED <<build, poly, calc, fast, rev>>

\* CalcStep of a compute that keeps the running CRC in the object, over polynomial_.
CalcStepKeepsCrc(t) ==
    /\ call[t].pc = "loop" /\ call[t].eng = "calc"
    /\ call[t].length > 0
    /\ call' = [call EXCEPT ![t].result =
                      CalcByte(calc, call[t].result, call[t].data[call[t].ptr + 1], build),
                  ![t].ptr = @ + 1,
                  ![t].length = @ - 1]
    /\ calc' = [calc EXCEPT !.polynomial_ =
                      CalcByte(calc, call[t].result, call[t].data[call[t].ptr + 1], build)]
    /\ UNCHANGED <<build, poly, fast, rev>>

\* CrcCalc::compute: one turn of while (length--).
CalcStep(t) ==
    /\ call[t].pc = "loop" /\ call[t].eng = "calc"
    /\ call[t].length > 0
    /\ call' = [call EXCEPT ![t].result =
                      CalcByte(calc, call[t].result, call[t].data[call[t].ptr + 1], build),
                  ![t].ptr = @ + 1,
                  ![t].length = @ - 1]
    /\ UNCHANGED <<build, poly, calc, fast, rev>>

\* FastStep of a compute whose result is one register shared by the calls in progress.
FastStepShared(t) ==
    /\ call[t].pc = "loop" /\ call[t].eng = "fast"
    /\ call[t].length > 0
    /\ call' = [u \in Threads |->
                  IF u = t
                  THEN [call[t] EXCEPT
                          !.result = FastByte(fast, call[t].result, call[t].data[call[t].ptr + 1]),
                          !.ptr = @ + 1,
                          !.length = @ - 1]
                  ELSE IF call[u].pc = "loop"
                  THEN [call[u] EXCEPT
                          !.result = FastByte(fast, call[t].result, call[t].data[call[t].ptr + 1])]
                  ELSE call[u]]
    /\ UNCHANGED <<build, poly, calc, fast, rev>>

\* CrcFastCalc::compute: one turn of while (length--).
FastStep(t) ==
    /\ call[t].pc = "loop" /\ call[t].eng = "fast"
    /\ call[t].length > 0
    /\ call' = [call EXCEPT ![t].result =
                      FastByte(fast, call[t].result, call[t].data[call[t].ptr + 1]),
                  ![t].ptr = @ + 1,
                  ![t].length = @ - 1]
    /\ UNCHANGED <<build, poly, calc, fast, rev>>

\* The loop ends on length = 0: return result.
Return(t) ==
    /\ call[t].pc = "loop"
    /\ call[t].length = 0
    /\ call' = [call EXCEPT ![t].pc = "done"]
    /\ UNCHANGED <<build, poly, calc, fast, rev>>

(***************************************************************************)
(* Threads calling compute on the two instances at the same time, each on  *)
(* a buffer of its own and with a seed of its own choice.                  *)
(***************************************************************************)
\* The buffer of thread t: the buffers of two threads start alike and end differently.
Buffer(t) == [i \in 1..MaxLen |-> IF i + t > MaxLen + 1 THEN \H80 ELSE \H31]

Next ==
    \E t \in Threads :
        \/ \E eng \in Engines, n \in 0..MaxLen, s \in Seeds(calc.T) :
               Compute(t, eng, SubSeq(Buffer(t), 1, n), s)
        \/ CalcStep(t)
        \/ FastStep(t)
        \/ Return(t)

Spec == Init /\ [][Next]_vars

(***************************************************************************)
(* One caller, feeding a stream chunk by chunk (test/example.cpp).         *)
(***************************************************************************)
Caller == 1

NextChunked ==
    \/ \E eng \in Engines, d \in Data \cup {Msg}, s \in Seeds(calc.T) :
           Compute(Caller, eng, d, s)
    \/ \E d \in Data : NextChunk(Caller, d)
    \/ CalcStep(Caller)
    \/ FastStep(Caller)
    \/ Return(Caller)

SpecChunked == Init /\ [][NextChunked]_vars

(***************************************************************************)
(* A caller of reverse<T>, applying it to its own result.                  *)
(***************************************************************************)
MaxReverse == 2

\* The arguments: every word of one bit, the polynomials, and the word of all ones.
RevArgs(w) == {{i} : i \in 0..(w - 1)} \cup Polys(w) \cup {AllOnes(w)}

\* The calculators are those of a shiftRight instantiation, whose constructor calls reverse.
InitReverse ==
    \E w \in Widths :
        /\ poly \in RevArgs(w)
        /\ build \in Builds(w, "shiftRight")
        /\ calc = CrcCalc(w, "shiftRight", poly, build)
        /\ fast = CrcFastCalc(w, "shiftRight", poly, build)
        /\ call = [t \in Threads |-> Idle]
        /\ rev = [T |-> w, arg |-> poly, value |-> poly, calls |-> 0]

Reverse ==
    /\ rev.calls < MaxReverse
    /\ rev' = [rev EXCEPT !.value = reverse(rev.T, rev.value, build["reverse"]),
                          !.calls = @ + 1]
    /\ UNCHANGED <<build, poly, calc, fast, call>>

NextReverse == Reverse

SpecReverse == InitReverse /\ [][NextReverse]_vars

(***************************************************************************)
(* Properties.                                                             *)
(***************************************************************************)
Done(t) == call[t].pc = "done"

\* The value the call c returns when it runs alone on the instances as they are.
RunAlone(c, data) ==
    IF c.eng = "calc" THEN CalcCompute(calc, data, c.seed, build)
    ELSE FastCompute(fast, data, c.seed)

\* C1: CrcCalc<W,D>(P).compute(B, S) and CrcFastCalc<W,D>(P).compute(B, S) return the
\* same value, for every width, direction, polynomial, seed and byte sequence: a call
\* that has returned from one calculator returned what the other returns for its input.
C1_Equivalence ==
    \A t \in Threads :
        Done(t) =>
            /\ call[t].eng = "calc" =>
                   call[t].result = FastCompute(fast, call[t].data, call[t].seed)
            /\ call[t].eng = "fast" =>
                   call[t].result = CalcCompute(calc, call[t].data, call[t].seed, build)

\* compute on the calculator the call c is made on.
ComputeOn(c, data, seed) ==
    IF c.eng = "calc" THEN CalcCompute(calc, data, seed, build)
    ELSE FastCompute(fast, data, seed)

\* C2: chunking invariance, for both calculators: compute(B, seed) equals
\* compute(B[k:], compute(B[:k], seed)) for every split point k, and folding compute over
\* the consecutive chunks of a stream, each call seeded with the value the call before it
\* returned, yields the CRC of the whole stream from the first seed.
C2_Chunking ==
    \A t \in Threads :
        Done(t) =>
            /\ call[t].result = ComputeOn(call[t], call[t].fed \o call[t].data, call[t].crc0)
            /\ \A k \in 0..Len(call[t].data) :
                   call[t].result =
                       ComputeOn(call[t], SubSeq(call[t].data, k + 1, Len(call[t].data)),
                                 ComputeOn(call[t], SubSeq(call[t].data, 1, k), call[t].seed))

\* A stream of two chunks, neither empty, has been computed from a seed that is not 0.
C2_Witness ==
    /\ Done(Caller)
    /\ call[Caller].fed # <<>> /\ call[Caller].data # <<>>
    /\ call[Caller].crc0 # {}

\* C3: identity on empty input: compute(data, 0, S) returns S unchanged, for both
\* calculators and every width, direction, polynomial and seed, and reads no byte.
C3_EmptyInput ==
    \A t \in Threads :
        (Done(t) /\ Len(call[t].data) = 0) =>
            (call[t].result = call[t].seed /\ call[t].ptr = 0)

\* A call of length 0 has returned, made with a seed that is not 0.
C3_Witness ==
    /\ Done(Caller)
    /\ Len(call[Caller].data) = 0
    /\ call[Caller].seed # {}

\* The call of thread t is one on "123456789" with this configuration and has returned.
KnownVector(t, w, dir, p, seed) ==
    /\ Done(t)
    /\ calc.T = w /\ calc.dir = dir /\ fast.T = w /\ fast.dir = dir
    /\ poly = p
    /\ call[t].data = Msg /\ call[t].seed = seed

\* C4, as amended: a calculator of 16 bits shifting right, constructed with polynomial
\* 0x1021, computing "123456789" with seed 0x0000, returns 0x2189.
C4_Kermit ==
    \A t \in Threads :
        KnownVector(t, 16, "shiftRight", Hex(0, 0, 0, \H1021), {}) =>
            call[t].result = Hex(0, 0, 0, \H2189)

\* C4 as stated: that call returns 0x31C3.
C4_Original ==
    \A t \in Threads :
        KnownVector(t, 16, "shiftRight", Hex(0, 0, 0, \H1021), {}) =>
            call[t].result = Hex(0, 0, 0, \H31C3)

\* The direct calculator has returned from that call.
C4_Witness ==
    /\ KnownVector(Caller, 16, "shiftRight", Hex(0, 0, 0, \H1021), {})
    /\ call[Caller].eng = "calc"

\* C5: a calculator of 32 bits shifting right, constructed with polynomial 0x04C11DB7,
\* computing "123456789" with seed 0xFFFFFFFF, returns a value whose XOR with 0xFFFFFFFF
\* is 0xCBF43926.
C5_CRC32 ==
    \A t \in Threads :
        KnownVector(t, 32, "shiftRight", Hex(0, 0, \H04C1, \H1DB7), AllOnes(32)) =>
            Xor(call[t].result, AllOnes(32)) = Hex(0, 0, \HCBF4, \H3926)

\* The table driven calculator has returned from that call.
C5_Witness ==
    /\ KnownVector(Caller, 32, "shiftRight", Hex(0, 0, \H04C1, \H1DB7), AllOnes(32))
    /\ call[Caller].eng = "fast"

\* C6: reverse(reverse(v)) = v for every width W in {8, 16, 32, 64} and every W-bit v.
C6_Involution == rev.calls = 2 => rev.value = rev.arg

\* C7: compute has no side effect on the calculator: no step changes the stored
\* polynomial, the mask, the pack offset or an entry of the lookup table, and two calls
\* with the same data, length and seed on the same calculator, whatever was called in
\* between, have returned the same value.
C7_NoSideEffects ==
    /\ [][calc' = calc /\ fast' = fast]_vars
    /\ [](\A t, u \in Threads :
            (/\ Done(t) /\ Done(u)
             /\ call[t].eng = call[u].eng
             /\ call[t].data = call[u].data
             /\ call[t].seed = call[u].seed) => call[t].result = call[u].result)

\* Two threads have returned from calls on the direct calculator with the same bytes and seed.
C7_Witness ==
    /\ Done(1) /\ Done(2)
    /\ call[1].eng = "calc" /\ call[2].eng = "calc"
    /\ call[1].data = call[2].data /\ call[1].data # <<>>
    /\ call[1].seed = call[2].seed

\* C8: concurrent read-only use is safe: under every interleaving of the per-byte steps
\* of the threads' calls, each call holds after each of its steps, and returns, exactly
\* the value it has when run alone on the bytes it has consumed.
C8_RunAlone ==
    \A t \in Threads :
        call[t].pc \in {"loop", "done"} =>
            call[t].result = RunAlone(call[t], SubSeq(call[t].data, 1, call[t].ptr))

\* Two threads are in the middle of calls on the table driven calculator, with different
\* seeds, each with a byte consumed and a byte to go.
C8_Witness ==
    /\ call[1].pc = "loop" /\ call[2].pc = "loop"
    /\ call[1].eng = "fast" /\ call[2].eng = "fast"
    /\ call[1].ptr = 1 /\ call[2].ptr = 1
    /\ call[1].length > 0 /\ call[2].length > 0
    /\ call[1].seed # call[2].seed

(***************************************************************************)
(* The bit-by-bit algorithm of C9, in arithmetic of exactly W bits.        *)
(***************************************************************************)
RefReverse(w, p) == {w - 1 - i : i \in p}
RefStored(w, dir, p) == IF dir = "shiftLeft" THEN p ELSE RefReverse(w, p)
RefMask(w, dir) == IF dir = "shiftLeft" THEN {w - 1} ELSE {0}
RefPack(w, dir) == IF dir = "shiftLeft" THEN w - ByteBits ELSE 0
RefShift(w, dir, r) == IF dir = "shiftLeft" THEN Trunc(Shl(r, 1), w) ELSE Shr(r, 1)

RefRound(w, dir, p, r) ==
    IF r \cap RefMask(w, dir) # {}
    THEN Xor(RefShift(w, dir, r), RefStored(w, dir, p))
    ELSE RefShift(w, dir, r)

RECURSIVE RefRounds(_, _, _, _, _)
RefRounds(w, dir, p, r, n) ==
    IF n = 0 THEN r ELSE RefRounds(w, dir, p, RefRound(w, dir, p, r), n - 1)

RefByte(w, dir, p, r, byte) ==
    RefRounds(w, dir, p, Xor(r, Trunc(Shl(BitsOf(byte), RefPack(w, dir)), w)), ByteBits)

RECURSIVE RefCompute(_, _, _, _, _)
RefCompute(w, dir, p, data, seed) ==
    IF data = <<>> THEN seed
    ELSE CHOOSE v \in {RefCompute(w, dir, p, Tail(data), r) :
                          r \in {RefByte(w, dir, p, seed, Head(data))}} : TRUE

\* C9: CrcCalc<W,D>(P).compute(B, S) equals the result of the bit-by-bit algorithm in
\* W-bit arithmetic (the byte XORed in at the pack offset, 8 rounds on the MSB or the LSB,
\* the stored polynomial being P for Left and the full W-bit reversal of P for Right).
C9_Reference ==
    \A t \in Threads :
        (Done(t) /\ call[t].eng = "calc") =>
            call[t].result = RefCompute(calc.T, calc.dir, poly, call[t].data, call[t].seed)

\* C10: table self-consistency: after construction, for every i in 0..255 the entry i
\* of the lookup table is CrcCalc<W,D>(P).compute([i], 0).
C10_Table ==
    \A i \in 0..(TableSize - 1) :
        fast.lookup_table_[i] = CalcCompute(calc, <<i>>, {}, build)

====
